---- MODULE Spec2Model ----
(***************************************************************************)
(* Model of workers-builder: the virtual npm installer                     *)
(* (packages/workers-builder/src/installer.ts) and the createWorker driver *)
(* (packages/dynamic-worker-bundler/src/index.ts).                         *)
(*                                                                         *)
(* JavaScript runs one job at a time: an action of this model is one job,  *)
(* i.e. the code between two suspension points (await).                    *)
(***************************************************************************)
EXTENDS Integers, Sequences, FiniteSets, TLC

(***************************************************************************)
(* Bounds                                                                  *)
(***************************************************************************)
\* largest number of entries of one dependencies map
MaxDeps == 2

\* largest number of specifiers the entry file of a source tree imports
MaxImports == 2

\* largest number of members of an archive before its end marker
MaxMembers == 2

\* largest number of iterations of the loop of parseTar that are followed
MaxIterations == 6

\* number of concurrent callers of initializeEsbuild
MaxCallers == 2

\* largest number of calls of initializeEsbuild in a run
MaxCalls == 4

\* the package names that occur in a run
Names == {"a", "b", "p"}

\* `undefined`
None == <<>>

(***************************************************************************)
(* Values                                                                  *)
(***************************************************************************)
\* a version range as written in a dependencies map
RangeExact(v) == [kind |-> "version", ver |-> v]
RangeWord(w) == [kind |-> "word", word |-> w]

\* The registry a run talks to: the names it serves, the versions its
\* documents may list as <<major, minor, patch>>, and the ranges that occur in
\* the dependencies maps.  WideRegistry has the dependency graphs over three
\* packages, NarrowRegistry has fewer packages with more versions and ranges.
\* archives: the text members an archive may extract to (paths below package/).
WideRegistry ==
    [names |-> {"a", "b", "p"},
     vers |-> {<<1, 0, 0>>},
     ranges |-> {RangeWord("latest")},
     archives |-> {{<<"index.js">>}}]

NarrowRegistry ==
    [names |-> {"a", "b"},
     vers |-> {<<1, 0, 0>>, <<2, 0, 0>>},
     ranges |-> {RangeExact(<<1, 0, 0>>), RangeWord("latest")},
     archives |-> {{}, {<<"index.js">>}, {<<"index.js">>, <<"package.json">>}}]

\* OddRegistry serves two packages of one version, asked for with the range
\* `latest` or with a range that is the name of an inherited property.
OddRegistry ==
    [names |-> {"a", "b"},
     vers |-> {<<1, 0, 0>>},
     ranges |-> {RangeWord("latest"), RangeWord("constructor")},
     archives |-> {{<<"index.js">>}}]

\* Record<string, string> of dependencies: a function from names to ranges
DepMaps(u) ==
    UNION {[D -> u.ranges] : D \in {S \in SUBSET u.names : Cardinality(S) <= MaxDeps}}

EmptyMap == [n \in {} |-> None]

Text(t) == [kind |-> "text", text |-> t]
Manifest(deps, devDeps, exp, mod, main) ==
    [kind |-> "object", dependencies |-> deps, devDependencies |-> devDeps,
     exports |-> exp, module |-> mod, main |-> main]
\* paths are sequences of segments: "src/index.ts" is <<"src", "index.ts">>
PackageJsonPath == <<"package.json">>

\* files[path], undefined when the key is absent
Get(f, path) == IF path \in DOMAIN f THEN f[path] ELSE None

\* JavaScript truthiness of a file content (the empty string is falsy)
Truthy(c) == c # None /\ c # [kind |-> "empty"]

\* a function with one more (or one overwritten) key
Put(f, k, v) == [x \in DOMAIN f \cup {k} |-> IF x = k THEN v ELSE f[x]]

\* the entries of g written over f, as `{...f, ...g}` or a loop of assignments
Merge(f, g) == [x \in DOMAIN f \cup DOMAIN g |-> IF x \in DOMAIN g THEN g[x] ELSE f[x]]

RECURSIVE SetToSeq(_)
SetToSeq(S) == IF S = {} THEN <<>>
               ELSE LET x == CHOOSE y \in S : TRUE IN <<x>> \o SetToSeq(S \ {x})

Range(s) == {s[i] : i \in DOMAIN s}

(***************************************************************************)
(* Version Range Resolver (installer.ts, resolveVersion)                   *)
(***************************************************************************)
\* numeric order of versions, segment by segment
VersionLess(x, y) ==
    \/ x[1] < y[1]
    \/ x[1] = y[1] /\ x[2] < y[2]
    \/ x[1] = y[1] /\ x[2] = y[2] /\ x[3] < y[3]

VersionLeq(x, y) == x = y \/ VersionLess(x, y)

\* semver.satisfies(v, range) for the range shapes of this model
Satisfies(v, range) ==
    CASE range.kind = "version" -> v = range.ver
      [] range.kind = "caret" ->
            /\ VersionLeq(range.ver, v)
            /\ IF range.ver[1] > 0 THEN v[1] = range.ver[1]
               ELSE IF range.ver[2] > 0 THEN v[1] = 0 /\ v[2] = range.ver[2]
               ELSE v = range.ver
      [] range.kind = "tilde" ->
            VersionLeq(range.ver, v) /\ v[1] = range.ver[1] /\ v[2] = range.ver[2]
      [] range.kind = "gte" -> VersionLeq(range.ver, v)
      [] OTHER -> FALSE

\* the highest version that has the major of the range, whatever else the
\* range asks for
maxSameMajor(versions, range) ==
    LET ok == {v \in versions : range.kind # "word" /\ v[1] = range.ver[1]}
    IN IF ok = {} THEN None
       ELSE CHOOSE v \in ok : \A w \in ok : VersionLeq(w, v)

\* the highest version there is, whatever the range asks for
maxOfAll(versions, range) ==
    IF versions = {} THEN None
    ELSE CHOOSE v \in versions : \A w \in versions : VersionLeq(w, v)

\* semver.maxSatisfying(versions, range): null (None) when nothing satisfies
maxSatisfying(versions, range) ==
    LET ok == {v \in versions : Satisfies(v, range)}
    IN IF ok = {} THEN None
       ELSE CHOOSE v \in ok : \A w \in ok : VersionLeq(w, v)

\* the property names every object inherits from Object.prototype, as paths
\* of one segment and as keys of a versions map
Inherited == {<<"constructor">>, <<"toString">>, <<"valueOf">>, <<"hasOwnProperty">>}

\* metadata.versions[version] is truthy: the versions map is a plain object,
\* and a lookup also finds the properties it inherits
HasVersion(metadata, version) ==
    version \in metadata.versions \/ version \in Inherited

\* metadata['dist-tags'][tag]
DistTag(metadata, tag) ==
    IF tag \in DOMAIN metadata.distTags THEN metadata.distTags[tag] ELSE None

resolveVersion(range, metadata) ==
    IF range.kind = "word" /\ range.word \in {"latest", "*"}
    THEN DistTag(metadata, "latest")
    ELSE IF range.kind = "version" /\ HasVersion(metadata, range.ver)
    THEN range.ver
    ELSE IF range.kind = "word" /\ HasVersion(metadata, <<range.word>>)
    THEN <<range.word>>
    ELSE IF range.kind = "word" /\ DistTag(metadata, range.word) # None
    THEN DistTag(metadata, range.word)
    ELSE maxSatisfying(metadata.versions, range)

\* the registry documents a metadata fetch may answer with
Metadatas(u) ==
    {[versions |-> vs, distTags |-> dt] :
        vs \in SUBSET u.vers,
        dt \in {EmptyMap} \cup {[t \in {"latest"} |-> v] : v \in u.vers}}

(***************************************************************************)
(* State                                                                   *)
(***************************************************************************)
VARIABLES
    api,                \* the exported function that was called
    registry,           \* the registry the run talks to
    inputFiles,         \* the caller's file set (never written)
    dev,                \* options.dev of installDependencies
    entryOption,        \* options.entryPoint of createWorker
    opts,               \* the other options of createWorker
    built,              \* the CreateWorkerResult, once createWorker has returned
    rv,                 \* a call of resolveVersion: its arguments and result
    disc,               \* the first pass of transformAndResolve: its loop state
    rm,                 \* a call of resolveModule: its arguments and result
    tar,                \* a call of parseTar: the archive and the state of its loop
    esb,                \* initializeEsbuild: the module state, the promises, the callers
    cw,                 \* createWorker: its position, entry point and error
    ipc,                \* installDependencies: "idle", "running", "returned", "rejected"
    result,             \* the InstallResult: files, installed, warnings
    installedPackages,  \* Map name -> version
    inProgress,         \* Map name -> promise (the id of the install task)
    tasks,              \* the install promises created so far, by id
    metaFetches,        \* number of metadata requests sent, per name
    tarFetches,         \* number of archive requests sent, per name
    requested,          \* name -> the ranges installPackage was called with
    closed,             \* lengths of the dependency cycles met so far
    failures,           \* <<name, stage>> of every failure that happened
    written             \* name -> member paths written under node_modules/name/

\* the call's arguments and environment, fixed by Init
input == <<api, registry, inputFiles, dev, entryOption, opts>>

\* the calls of the other functions
calls == <<disc, rm, tar, esb>>

vars == <<input, calls, cw, built, rv, ipc, result, installedPackages, inProgress, tasks,
          metaFetches, tarFetches, requested, closed, failures, written>>

\* `${name}@${version}`
Entry(n, v) == <<n, v>>

NodeModulesPath(n, path) == <<"node_modules", n>> \o path

(***************************************************************************)
(* installPackage (installer.ts 152-224)                                   *)
(***************************************************************************)
\* a ledger check that does not look at the committed map
LedgerCheckInFlightOnly(name, installed, progress) ==
    IF name \in DOMAIN progress THEN "existing" ELSE "install"

\* lines 160-169: what a call does after looking at the ledger
LedgerCheck(name, installed, progress) ==
    IF name \in DOMAIN installed THEN "installed"
    ELSE IF name \in DOMAIN progress THEN "existing"
    ELSE "install"

\* an install promise that is never registered
RegisterNothing(progress, name, id) == progress

\* line 217: inProgress.set(name, installPromise)
Register(progress, name, id) == Put(progress, name, id)

\* a try block that ends after the metadata fetch
CaughtMetadataOnly(stage) == stage = "metadata"

\* lines 173, 210-213: the try block of the install promise covers every stage
Caught(stage) == TRUE

\* an exception thrown inside the install promise t
Thrown(t, warnings, stage) ==
    IF Caught(stage)
    THEN [task |-> [t EXCEPT !.pc = "settled"],
          warnings |-> Append(warnings, [kind |-> "Failed to install", name |-> t.name])]
    ELSE [task |-> [t EXCEPT !.pc = "settled", !.rejected = TRUE],
          warnings |-> warnings]

\* The synchronous part of the calls installPackage(n, deps[n], ...) made one
\* after the other for the names ns by the caller `parent`: a call returns at
\* once (installed), returns the existing promise, or creates the install
\* promise, which sends the metadata request before it first suspends.
\* adopts: the promises returned as `existing`.  Kept for the record:
\* requested, the ranges asked for, and closed, the lengths of the dependency
\* cycles that a call which returned at once has closed.
\* the length of the dependency cycle closed when install promise i asks for
\* name n: 1 when n is its own package, 2 when n is the package that asked
\* for it, ...; 0 when n is none of the packages on the path to i
RECURSIVE CycleLength(_, _, _)
CycleLength(ts, i, n) ==
    IF i = 0 THEN 0
    ELSE IF ts[i].name = n THEN 1
    ELSE LET d == CycleLength(ts, ts[i].parent, n) IN IF d = 0 THEN 0 ELSE d + 1

RECURSIVE Launch(_, _, _, _)
Launch(ns, deps, parent, st) ==
    IF ns = <<>> THEN st
    ELSE LET n == Head(ns)
             check == LedgerCheck(n, st.installed, st.progress)
             id == Len(st.tasks) + 1
             seen == [st EXCEPT !.requested = [@ EXCEPT ![n] = @ \cup {deps[n]}]]
             next ==
                CASE check = "installed" ->
                        [seen EXCEPT !.closed = @ \cup (IF CycleLength(st.tasks, parent, n) > 0
                                                        THEN {CycleLength(st.tasks, parent, n)}
                                                        ELSE {})]
                  [] check = "existing" ->
                        [seen EXCEPT !.adopts = @ \cup {st.progress[n]}]
                  [] OTHER ->
                        [seen EXCEPT
                            !.tasks = Append(@, [name |-> n, range |-> deps[n],
                                                 parent |-> parent, pc |-> "metadata",
                                                 rejected |-> FALSE, adopts |-> {}]),
                            !.fetches = [@ EXCEPT ![n] = @ + 1],
                            !.progress = Register(@, n, id)]
         IN Launch(Tail(ns), deps, parent, next)

LaunchAll(deps, parent) ==
    Launch(SetToSeq(DOMAIN deps), deps, parent,
           [tasks |-> tasks, progress |-> inProgress, fetches |-> metaFetches,
            installed |-> installedPackages, requested |-> requested,
            closed |-> closed, adopts |-> {}])

\* the state of `await Promise.all(...)` of the calls made by `parent`
Children(parent) == {i \in DOMAIN tasks : tasks[i].parent = parent}

AllRejected(parent, adopts) ==
    \/ \E i \in Children(parent) : tasks[i].pc = "done" /\ tasks[i].rejected
    \/ \E i \in adopts : tasks[i].pc \in {"settled", "done"} /\ tasks[i].rejected

\* a Promise.all that is not awaited
AllFulfilledNoWait(parent, adopts) == TRUE

AllFulfilled(parent, adopts) ==
    /\ \A i \in Children(parent) : tasks[i].pc = "done" /\ ~tasks[i].rejected
    /\ \A i \in adopts : tasks[i].pc \in {"settled", "done"} /\ ~tasks[i].rejected

(***************************************************************************)
(* installDependencies (installer.ts 98-147)                               *)
(***************************************************************************)
\* `{...x}` of a dependencies map that may be undefined
Spread(m) == IF m = None THEN EmptyMap ELSE m

\* lines 125-128
DepsToInstall(packageJson, d) ==
    Merge(Spread(packageJson.dependencies),
          IF d THEN Spread(packageJson.devDependencies) ELSE EmptyMap)

\* installDependencies(f, {dev: d}) up to its first suspension or its return
InstallStart(f, d) ==
    LET packageJsonContent == Get(f, PackageJsonPath)
        fresh == [files |-> f, installed |-> <<>>, warnings |-> <<>>]
    IN
    /\ installedPackages' = EmptyMap
    /\ UNCHANGED <<tarFetches, failures, written>>
    /\ IF ~Truthy(packageJsonContent)
       THEN /\ ipc' = "returned"
            /\ result' = fresh
            /\ UNCHANGED <<inProgress, tasks, metaFetches, requested, closed>>
       ELSE IF packageJsonContent.kind = "text"
       THEN \* JSON.parse throws
            /\ ipc' = "returned"
            /\ result' = [fresh EXCEPT !.warnings = <<[kind |-> "Failed to parse package.json",
                                                       name |-> "package.json"]>>]
            /\ UNCHANGED <<inProgress, tasks, metaFetches, requested, closed>>
       ELSE IF packageJsonContent.kind = "null"
       THEN \* line 126 reads a property of null: TypeError outside any try
            /\ ipc' = "rejected"
            /\ result' = fresh
            /\ UNCHANGED <<inProgress, tasks, metaFetches, requested, closed>>
       ELSE LET depsToInstall == DepsToInstall(packageJsonContent, d)
                st == LaunchAll(depsToInstall, 0)
            IN IF DOMAIN depsToInstall = {}
               THEN /\ ipc' = "returned"
                    /\ result' = fresh
                    /\ UNCHANGED <<inProgress, tasks, metaFetches, requested, closed>>
               ELSE /\ ipc' = "running"
                    /\ result' = fresh
                    /\ tasks' = st.tasks
                    /\ inProgress' = st.progress
                    /\ metaFetches' = st.fetches
                    /\ requested' = st.requested
                    /\ closed' = st.closed

\* the caller invokes installDependencies(files, {dev})
CallInstall ==
    /\ api = "installDependencies"
    /\ ipc = "idle"
    /\ InstallStart(inputFiles, dev)
    /\ UNCHANGED <<input, calls, built, rv, cw>>

\* The metadata request of install promise i completes (lines 175-196):
\* it fails, or answers with a registry document; the version is resolved,
\* recorded, and the archive request is sent.
MetadataResponse(i) ==
    /\ tasks[i].pc = "metadata"
    /\ LET t == tasks[i] IN
       \/ \* fetch rejects, times out, or the status is not ok
          LET th == Thrown(t, result.warnings, "metadata") IN
          /\ tasks' = [tasks EXCEPT ![i] = th.task]
          /\ result' = [result EXCEPT !.warnings = th.warnings]
          /\ failures' = failures \cup {<<t.name, "metadata">>}
          /\ UNCHANGED <<installedPackages, tarFetches>>
       \/ \E metadata \in Metadatas(registry), hasTarball \in BOOLEAN :
            LET version == resolveVersion(t.range, metadata) IN
            IF version = None
            THEN /\ result' = [result EXCEPT
                        !.warnings = Append(@, [kind |-> "Could not resolve version for",
                                                name |-> t.name])]
                 /\ tasks' = [tasks EXCEPT ![i].pc = "settled"]
                 /\ failures' = failures \cup {<<t.name, "resolve">>}
                 /\ UNCHANGED <<installedPackages, tarFetches>>
            ELSE IF ~HasVersion(metadata, version)
            THEN /\ result' = [result EXCEPT
                        !.warnings = Append(@, [kind |-> "Version not found for", name |-> t.name])]
                 /\ tasks' = [tasks EXCEPT ![i].pc = "settled"]
                 /\ failures' = failures \cup {<<t.name, "resolve">>}
                 /\ UNCHANGED <<installedPackages, tarFetches>>
            ELSE /\ installedPackages' = Put(installedPackages, t.name, version)
                 /\ IF hasTarball /\ version \in metadata.versions
                    THEN /\ result' = [result EXCEPT
                                !.installed = Append(@, Entry(t.name, version))]
                         /\ tasks' = [tasks EXCEPT ![i].pc = "tarball"]
                         /\ tarFetches' = [tarFetches EXCEPT ![t.name] = @ + 1]
                         /\ UNCHANGED failures
                    ELSE \* fetchPackageFiles throws: no tarball URL
                         LET th == Thrown(t, result.warnings, "archive-url") IN
                         /\ result' = [result EXCEPT
                                !.installed = Append(@, Entry(t.name, version)),
                                !.warnings = th.warnings]
                         /\ tasks' = [tasks EXCEPT ![i] = th.task]
                         /\ failures' = failures \cup {<<t.name, "archive-url">>}
                         /\ UNCHANGED tarFetches
    /\ UNCHANGED <<input, calls, built, rv, cw, ipc, inProgress, metaFetches, requested, closed,
                   written>>

\* The archive request of install promise i completes (lines 196-209): it
\* fails, or the body does not decode, or the members are written and the
\* dependencies of the version are requested.
TarballResponse(i) ==
    /\ tasks[i].pc = "tarball"
    /\ LET t == tasks[i] IN
       \/ \E stage \in {"archive-fetch", "archive-decode"} :
            LET th == Thrown(t, result.warnings, stage) IN
            /\ tasks' = [tasks EXCEPT ![i] = th.task]
            /\ result' = [result EXCEPT !.warnings = th.warnings]
            /\ failures' = failures \cup {<<t.name, stage>>}
            /\ UNCHANGED <<inProgress, metaFetches, requested, closed, written>>
       \/ \E packageFiles \in registry.archives, deps \in DepMaps(registry) :
            LET members == [path \in {NodeModulesPath(t.name, q) : q \in packageFiles}
                              |-> ([kind |-> "pkgfile", pkg |-> t.name,
                                    ver |-> (installedPackages[t.name])])]
                st == LaunchAll(deps, i)
            IN
            /\ result' = [result EXCEPT !.files = Merge(@, members)]
            /\ written' = Put(written, t.name, packageFiles)
            /\ tasks' = [st.tasks EXCEPT ![i].pc = "deps", ![i].adopts = st.adopts]
            /\ inProgress' = st.progress
            /\ metaFetches' = st.fetches
            /\ requested' = st.requested
            /\ closed' = st.closed
            /\ UNCHANGED failures
    /\ UNCHANGED <<input, calls, built, rv, cw, ipc, installedPackages, tarFetches>>

\* `await Promise.all(...)` of install promise i settles (lines 205-214)
DepsSettled(i) ==
    /\ tasks[i].pc = "deps"
    /\ LET t == tasks[i] IN
       IF AllRejected(i, t.adopts)
       THEN LET th == Thrown(t, result.warnings, "dependency") IN
            /\ tasks' = [tasks EXCEPT ![i] = th.task]
            /\ result' = [result EXCEPT !.warnings = th.warnings]
       ELSE /\ AllFulfilled(i, t.adopts)
            /\ tasks' = [tasks EXCEPT ![i].pc = "settled"]
            /\ UNCHANGED result
    /\ UNCHANGED <<input, calls, built, rv, cw, ipc, installedPackages, inProgress,
                   metaFetches, tarFetches, requested, closed, failures, written>>

\* a creator that resumes and leaves the handle in the map
CleanupKeepsHandle(i) ==
    /\ tasks[i].pc = "settled"
    /\ tasks' = [tasks EXCEPT ![i].pc = "done"]
    /\ UNCHANGED <<input, calls, built, rv, cw, ipc, result, installedPackages, inProgress,
                   metaFetches, tarFetches, requested, closed, failures, written>>

\* lines 219-223: the creator of install promise i resumes after
\* `await installPromise` and removes the handle
Cleanup(i) ==
    /\ tasks[i].pc = "settled"
    /\ inProgress' = ([x \in DOMAIN inProgress \ {(tasks[i].name)} |-> inProgress[x]])
    /\ tasks' = [tasks EXCEPT ![i].pc = "done"]
    /\ UNCHANGED <<input, calls, built, rv, cw, ipc, result, installedPackages,
                   metaFetches, tarFetches, requested, closed, failures, written>>

\* lines 140-146: the top-level Promise.all settles
InstallReturn ==
    /\ ipc = "running"
    /\ IF AllRejected(0, {}) THEN ipc' = "rejected"
       ELSE AllFulfilled(0, {}) /\ ipc' = "returned"
    /\ UNCHANGED <<input, calls, built, rv, cw, result, installedPackages, inProgress,
                   tasks, metaFetches, tarFetches, requested, closed, failures, written>>

(***************************************************************************)
(* parseTar (installer.ts 356-468)                                         *)
(***************************************************************************)
\* Math.ceil(size / 512)
CeilBlocks(size) ==
    IF size >= 0 THEN (size + 511) \div 512 ELSE -((-size) \div 512)

\* isTextFile: textExtensions and configFiles (installer.ts 422-468)
TextExtensions ==
    {".js", ".mjs", ".cjs", ".ts", ".mts", ".cts", ".tsx", ".jsx", ".json", ".md",
     ".txt", ".css", ".html", ".yml", ".yaml", ".toml", ".xml", ".svg", ".map",
     ".d.ts", ".d.mts", ".d.cts"}

ConfigFiles ==
    {"LICENSE", "README", "CHANGELOG", "package.json", "tsconfig.json",
     ".npmignore", ".gitignore"}

\* the base names and the endings of the member names that occur in a run
TarStems == {"index", "lib", "logo", "README", "LICENSE", "content"}
\* fileName.toUpperCase().startsWith(f.toUpperCase()) for a config file f,
\* or path.toLowerCase().endsWith(ext) for a text extension ext
isTextFile(path) ==
    LET fileName == path[Len(path)]
    IN \/ \E f \in ConfigFiles, rest \in ({"", ".png"} \cup TextExtensions) : fileName = f \o rest
       \/ \E stem \in TarStems, ext \in TextExtensions : fileName = stem \o ext

\* installer.ts 361-404: the test of the loop and one iteration.  An archive
\* is a sequence of 512-byte blocks: a block of zeros, the header of a
\* member (name, size field, type flag), or a block of content.  A content
\* block read as a header (lines 371-377) has text where the size field is,
\* parseInt of it gives NaN, and the size is 0.
ParseTarIteration(t) ==
    LET block == t.data[t.offset + 1]
        header == IF block.kind = "header" THEN block
                  ELSE [name |-> <<"content">>, size |-> 0, typeFlag |-> "NUL"]
        size == header.size
        afterHeader == t.offset + 1
        filePath == IF Len(header.name) > 1 /\ Head(header.name) = "package"
                    THEN Tail(header.name) ELSE header.name
        emitted == IF header.typeFlag \in {"0", "NUL"} /\ size > 0 /\ isTextFile(filePath)
                   THEN Put(t.files, filePath, afterHeader)
                   ELSE t.files
    IN IF ~(t.offset < Len(t.data) - 1) THEN [t EXCEPT !.pc = "returned"]
       ELSE IF t.data[t.offset + 1].kind = "zero" THEN [t EXCEPT !.pc = "returned"]
       ELSE [t EXCEPT !.files = emitted,
                      !.offset = afterHeader + CeilBlocks(size),
                      !.iterations = @ + 1]

(***************************************************************************)
(* Entry point and configuration (types.ts 122-204, 581-665)               *)
(***************************************************************************)
WranglerToml == <<"wrangler.toml">>
WranglerJson == <<"wrangler.json">>
WranglerJsonc == <<"wrangler.jsonc">>

\* a wrangler configuration file that parses, with its `main` (None: no main)
Wrangler(main) == [kind |-> "wrangler", main |-> main]

\* parseWranglerToml / parseWranglerJson / parseWranglerJsonc and
\* extractWranglerConfig: a file that does not parse gives {}
extractWranglerConfig(content) ==
    IF content.kind = "wrangler" THEN [main |-> content.main] ELSE [main |-> None]

\* parseWranglerConfig: None stands for undefined (no config file)
parseWranglerConfig(f) ==
    IF Truthy(Get(f, WranglerToml)) THEN extractWranglerConfig(f[WranglerToml])
    ELSE IF Truthy(Get(f, WranglerJson)) THEN extractWranglerConfig(f[WranglerJson])
    ELSE IF Truthy(Get(f, WranglerJsonc)) THEN extractWranglerConfig(f[WranglerJsonc])
    ELSE None

\* hasDependencies (installer.ts 471-482)
hasDependencies(f) ==
    LET packageJson == Get(f, PackageJsonPath)
    IN IF ~Truthy(packageJson) THEN FALSE
       ELSE IF packageJson.kind # "object" THEN FALSE
       ELSE DOMAIN Spread(packageJson.dependencies) # {}

\* normalizeEntryPath: "./x" is <<".", "x">>
normalizeEntryPath(path) ==
    IF Len(path) > 1 /\ Head(path) = "." THEN Tail(path) ELSE path

\* a ?? b
Nullish(a, b) == IF a # None THEN a ELSE b

IsPath(x) == x # None /\ x.kind = "path"

\* a detection that reads `main` of package.json only
PackageJsonEntryMainOnly(f) ==
    LET content == Get(f, PackageJsonPath) IN
    IF ~Truthy(content) \/ content.kind # "object" THEN None
    ELSE IF content.main # None THEN normalizeEntryPath(content.main)
    ELSE None

\* the package.json part of detectEntryPoint: None when it names nothing
PackageJsonEntry(f) ==
    LET content == Get(f, PackageJsonPath) IN
    IF ~Truthy(content) \/ content.kind # "object" THEN None
    ELSE LET exp == content.exports
             dotExport == IF exp # None /\ exp.kind = "object" THEN exp.dot ELSE None
             entry == IF dotExport # None /\ dotExport.kind = "conditions"
                      THEN Nullish(dotExport.import,
                                   Nullish(dotExport.default, dotExport.module))
                      ELSE None
         IN IF IsPath(exp) THEN normalizeEntryPath(exp.path)
            ELSE IF IsPath(dotExport) THEN normalizeEntryPath(dotExport.path)
            ELSE IF IsPath(entry) THEN normalizeEntryPath(entry.path)
            ELSE IF content.module # None THEN normalizeEntryPath(content.module)
            ELSE IF content.main # None THEN normalizeEntryPath(content.main)
            ELSE None

defaultEntries ==
    << <<"src", "index.ts">>, <<"src", "index.js">>, <<"src", "index.mts">>,
       <<"src", "index.mjs">>, <<"index.ts">>, <<"index.js">>,
       <<"src", "worker.ts">>, <<"src", "worker.js">> >>

\* detectEntryPoint (types.ts 122-196)
detectEntryPoint(f, wranglerConfig) ==
    IF wranglerConfig # None /\ wranglerConfig.main # None
    THEN normalizeEntryPath(wranglerConfig.main)
    ELSE IF PackageJsonEntry(f) # None THEN PackageJsonEntry(f)
    ELSE LET present == {k \in DOMAIN defaultEntries : defaultEntries[k] \in DOMAIN f}
         IN IF present = {} THEN None
            ELSE defaultEntries[CHOOSE k \in present : \A j \in present : k <= j]

(***************************************************************************)
(* Paths and file names (types.ts 439-487, 847-871)                        *)
(***************************************************************************)
\* the base names of the files that occur in a run, without their extension
Stems == {"index", "utils", "data", "helper", "main", "worker", "package", "old"}

\* /\.ext$/.test(path), path.endsWith('.ext')
EndsWith(path, ext) ==
    path # <<>> /\ \E s \in Stems : path[Len(path)] = s \o ext

\* the path with its extension ext replaced by the extension to
ReplaceExt(path, ext, to) ==
    [path EXCEPT ![Len(path)] = (CHOOSE s \in Stems : path[Len(path)] = s \o ext) \o to]

isTypeScriptFile(path) ==
    EndsWith(path, ".ts") \/ EndsWith(path, ".tsx") \/ EndsWith(path, ".mts")

isJavaScriptFile(path) ==
    \E ext \in {".js", ".jsx", ".ts", ".tsx", ".mjs", ".mts"} : EndsWith(path, ext)

\* getOutputPath: .ts -> .js, .tsx -> .js, .mts -> .mjs
getOutputPath(path) ==
    IF EndsWith(path, ".ts") THEN ReplaceExt(path, ".ts", ".js")
    ELSE IF EndsWith(path, ".tsx") THEN ReplaceExt(path, ".tsx", ".js")
    ELSE IF EndsWith(path, ".mts") THEN ReplaceExt(path, ".mts", ".mjs")
    ELSE path

\* types.ts 903, 977: the key a source file is emitted under
OutputPath(path) == IF isTypeScriptFile(path) THEN getOutputPath(path) ELSE path

\* getDirectory: the path without its last segment
getDirectory(path) == IF path = <<>> THEN <<>> ELSE SubSeq(path, 1, Len(path) - 1)

\* a specifier is a sequence of segments as well: "./utils" is <<".", "utils">>,
\* "../lib/x" is <<"..", "lib", "x">>, "/src/x" is <<"", "src", "x">> and the
\* bare "a/sub" is <<"a", "sub">>
StartsWithSlash(specifier) == specifier # <<>> /\ Head(specifier) = ""

StartsWithDot(specifier) == specifier # <<>> /\ Head(specifier) \in {".", ".."}

\* the loop of joinPaths: `..` pops, `.` is skipped, anything else is pushed
RECURSIVE JoinParts(_, _)
JoinParts(baseParts, relativeParts) ==
    IF relativeParts = <<>> THEN baseParts
    ELSE LET part == Head(relativeParts)
             next == IF part = ".."
                     THEN getDirectory(baseParts)
                     ELSE IF part # "." THEN Append(baseParts, part)
                     ELSE baseParts
         IN JoinParts(next, Tail(relativeParts))

\* joinPaths (types.ts 450-467)
joinPaths(base, relative) ==
    IF StartsWithSlash(relative) THEN Tail(relative)
    ELSE JoinParts(base, relative)

\* normalizePath: no leading "./", no empty segment after the first
normalizePath(path) ==
    LET noDot == IF path # <<>> /\ Head(path) = "." THEN Tail(path) ELSE path
    IN IF noDot = <<>> THEN <<>>
       ELSE <<Head(noDot)>> \o SelectSeq(Tail(noDot), LAMBDA s : s # "")

\* normalizeRelativePath: no leading "./" and no leading "/"
normalizeRelativePath(path) ==
    IF path # <<>> /\ Head(path) \in {".", ""} /\ Len(path) > 1 THEN Tail(path) ELSE path

\* DEFAULT_EXTENSIONS
Extensions == <<".ts", ".tsx", ".js", ".jsx", ".mts", ".mjs", ".json">>

\* normalized + ext
AddExt(path, ext) ==
    IF path = <<>> THEN <<ext>> ELSE [path EXCEPT ![Len(path)] = @ \o ext]

\* `${normalized}/index${ext}`
IndexPath(path, ext) ==
    IF path = <<>> THEN <<"", "index" \o ext>> ELSE Append(path, "index" \o ext)

\* `path in files`: the file set is a plain object, and the `in` operator
\* also finds the properties it inherits
In(path, f) == path \in DOMAIN f \/ path \in Inherited

\* the first element of the sequence of candidates that is `in` f
FirstIn(candidates, f) ==
    LET hits == {k \in DOMAIN candidates : In(candidates[k], f)}
    IN IF hits = {} THEN None
       ELSE candidates[CHOOSE k \in hits : \A j \in hits : k <= j]

\* resolveWithExtensions (types.ts 375-405)
resolveWithExtensions(path, f) ==
    LET normalized == normalizePath(path)
    IN FirstIn(<<normalized>>
               \o [k \in DOMAIN Extensions |-> AddExt(normalized, Extensions[k])]
               \o [k \in DOMAIN Extensions |-> IndexPath(normalized, Extensions[k])], f)

\* resolveRelative (types.ts 286-299)
resolveRelative(specifier, importer, f) ==
    resolveWithExtensions(joinPaths(getDirectory(importer), specifier), f)

(***************************************************************************)
(* Module resolver (types.ts 261-434)                                      *)
(***************************************************************************)
\* the outcomes of resolveModule: a ResolveResult, or an exception
Internal(path) == [path |-> path, external |-> FALSE, threw |-> FALSE]
External(specifier) == [path |-> specifier, external |-> TRUE, threw |-> FALSE]
\* parsePackageSpecifier (types.ts 410-434)
parsePackageSpecifier(specifier) ==
    IF Head(specifier) \in {"@scope"} /\ Len(specifier) >= 2
    THEN [packageName |-> SubSeq(specifier, 1, 2),
          subpath |-> SubSeq(specifier, 3, Len(specifier))]
    ELSE [packageName |-> <<Head(specifier)>>, subpath |-> Tail(specifier)]

\* JSON.parse of the manifest of an installed package; the manifest of an
\* extracted archive is an object that names no entry file
ParseManifest(content) ==
    IF content.kind = "object" THEN content
    ELSE Manifest(None, None, None, None, None)

\* resolve.exports resolve(pkg, entry, {conditions}): the path the exports
\* field gives for the subpath, None when it gives none or throws
ExportsResolve(pkg, subpath) ==
    LET exp == pkg.exports
        dot == IF exp # None /\ exp.kind = "object" THEN exp.dot ELSE None
        byCondition == IF dot # None /\ dot.kind = "conditions"
                       THEN Nullish(dot.import, dot.default)
                       ELSE None
    IN IF exp = None \/ subpath # <<>> THEN None
       ELSE IF IsPath(exp) THEN exp.path
       ELSE IF IsPath(dot) THEN dot.path
       ELSE IF IsPath(byCondition) THEN byCondition.path
       ELSE None

\* resolvePackage (types.ts 304-370)
resolvePackage(specifier, f) ==
    LET parsed == parsePackageSpecifier(specifier)
        root == <<"node_modules">> \o parsed.packageName
        packageJson == Get(f, Append(root, "package.json"))
    IN IF ~Truthy(packageJson) THEN External(specifier)
       ELSE IF packageJson.kind \in {"text", "null"} THEN [path |-> specifier,
                                                           external |-> FALSE, threw |-> TRUE]
       ELSE LET pkg == ParseManifest(packageJson)
                resolved == ExportsResolve(pkg, parsed.subpath)
                legacyEntry == (Nullish(pkg.module, pkg.main))
                indexPath == resolveWithExtensions(root \o parsed.subpath, f)
            IN IF resolved # None /\ In(root \o normalizeRelativePath(resolved), f)
               THEN Internal(root \o normalizeRelativePath(resolved))
               ELSE IF legacyEntry # None
                       /\ In(root \o normalizeRelativePath(legacyEntry), f)
               THEN Internal(root \o normalizeRelativePath(legacyEntry))
               ELSE IF indexPath # None THEN Internal(indexPath)
               ELSE External(specifier)

\* resolveModule (types.ts 261-281)
resolveModule(specifier, f, importer) ==
    IF StartsWithDot(specifier) \/ StartsWithSlash(specifier)
    THEN LET resolved == resolveRelative(specifier, importer, f)
         IN IF resolved # None THEN Internal(resolved) ELSE [path |-> specifier,
                                                            external |-> FALSE, threw |-> TRUE]
    ELSE resolvePackage(specifier, f)

(***************************************************************************)
(* transformAndResolve and rewriteImports (types.ts 877-1110)              *)
(***************************************************************************)
\* a source file: the specifiers of its static imports and re-exports, the
\* specifiers of its dynamic imports, and whether the transformer rejects
\* it (a syntax error)
Code(imports, dynamic, bad) ==
    [kind |-> "code", imports |-> imports, dynamic |-> dynamic, bad |-> bad]

\* parseImports: the specifiers of a file, each once
parseImports(content) ==
    IF content.kind = "code" THEN SetToSeq(content.imports \cup content.dynamic)
    ELSE <<>>

\* types.ts 925, 1008: externals.includes(specifier) or a prefix `${e}/`
IsExternal(specifier, externals) ==
    \E e \in externals :
        \/ specifier = e
        \/ Len(specifier) > Len(e) /\ SubSeq(specifier, 1, Len(e)) = e

\* no path counts as processed
NeverProcessed(st, path) == FALSE

\* processed.has(path) (types.ts 893, 935)
IsProcessed(st, path) == path \in st.processed

\* types.ts 923-943: the imports of filePath are resolved one after the other
RECURSIVE QueueImports(_, _, _, _, _)
QueueImports(specifiers, filePath, f, externals, st) ==
    IF specifiers = <<>> THEN st
    ELSE LET specifier == Head(specifiers)
             resolved == resolveModule(specifier, f, filePath)
             next ==
                IF IsExternal(specifier, externals) THEN st
                ELSE IF resolved.threw
                THEN [st EXCEPT !.warnings = Append(@, [kind |-> "Failed to resolve",
                                                        name |-> filePath, specifier |-> specifier])]
                ELSE IF ~resolved.external /\ ~IsProcessed(st, resolved.path)
                THEN [st EXCEPT !.toProcess = Append(@, resolved.path)]
                ELSE st
         IN QueueImports(Tail(specifiers), filePath, f, externals, next)

\* types.ts 892-943, one iteration of the first pass: st holds toProcess,
\* processed, pathMap (the <<source, output>> pairs in insertion order),
\* modules and warnings, and the paths whose content was read, in order
DiscoverIteration(f, externals, st) ==
    LET filePath == st.toProcess[Len(st.toProcess)]
        popped == [st EXCEPT !.toProcess = SubSeq(@, 1, Len(@) - 1)]
        content == Get(f, filePath)
        marked == [popped EXCEPT !.processed = @ \cup {filePath},
                                 !.reads = Append(@, filePath)]
        mapped == [marked EXCEPT !.pathMap = Append(@, <<filePath, OutputPath(filePath)>>)]
    IN IF IsProcessed(st, filePath) THEN popped
       ELSE IF content = None
       THEN [marked EXCEPT !.warnings = Append(@, [kind |-> "File not found", name |-> filePath,
                                                   specifier |-> None])]
       ELSE IF ~isJavaScriptFile(filePath)
       THEN IF EndsWith(filePath, ".json")
            THEN IF (content.kind \in {"object", "null", "wrangler", "pkgfile", "json"})
                 THEN [mapped EXCEPT !.modules = Put(@, filePath, [kind |-> "json",
                                                            source |-> filePath])]
                 ELSE [mapped EXCEPT !.warnings = Append(@,
                                                         [kind |-> "Failed to parse JSON file",
                                                          name |-> filePath, specifier |-> None])]
            ELSE [mapped EXCEPT !.modules = Put(@, filePath, [kind |-> "text",
                                                            source |-> filePath])]
       ELSE QueueImports(parseImports(content), filePath, f, externals, mapped)

\* types.ts 891-944, the first pass: the loop runs while toProcess has paths
RECURSIVE Discover(_, _, _)
Discover(f, externals, st) ==
    IF st.toProcess = <<>> THEN st
    ELSE Discover(f, externals, DiscoverIteration(f, externals, st))

\* types.ts 882-888: the state before the first pass
DiscoverStart(entryPoint) ==
    [toProcess |-> <<entryPoint>>, processed |-> {}, pathMap |-> <<>>,
     modules |-> EmptyMap, warnings |-> <<>>, reads |-> <<>>]

\* the source paths of pathMap, pathMap.get(path) ?? path
MappedSources(pathMap) == {pathMap[k][1] : k \in DOMAIN pathMap}

PathMapGet(pathMap, path) ==
    LET hits == {k \in DOMAIN pathMap : pathMap[k][1] = path}
    IN IF hits = {} THEN path ELSE pathMap[CHOOSE k \in hits : TRUE][2]

\* the number of leading segments two directories share
RECURSIVE CommonLength(_, _)
CommonLength(fromParts, toParts) ==
    IF fromParts # <<>> /\ toParts # <<>> /\ Head(fromParts) = Head(toParts)
    THEN 1 + CommonLength(Tail(fromParts), Tail(toParts))
    ELSE 0

\* calculateRelativePath (types.ts 1071-1110)
calculateRelativePath(from, to) ==
    LET fromDir == getDirectory(from)
        toDir == getDirectory(to)
        toFile == to[Len(to)]
        commonLength == CommonLength(fromDir, toDir)
        upCount == Len(fromDir) - commonLength
        downParts == SubSeq(toDir, commonLength + 1, Len(toDir))
    IN IF fromDir = toDir THEN <<".", toFile>>
       ELSE (IF upCount = 0 THEN <<".">> ELSE [k \in 1..upCount |-> ".."])
            \o downParts \o <<toFile>>

\* every specifier that resolves inside the file set becomes a relative path
RewriteRelative(specifier, importer, f, pathMap, externals) ==
    LET resolved == resolveModule(specifier, f, importer)
    IN IF IsExternal(specifier, externals) \/ resolved.threw \/ resolved.external
       THEN specifier
       ELSE calculateRelativePath(PathMapGet(pathMap, importer),
                                  PathMapGet(pathMap, resolved.path))

\* the replacement of one matched specifier (types.ts 1006-1064)
RewriteSpecifier(specifier, importer, f, pathMap, externals) ==
    LET resolved == resolveModule(specifier, f, importer)
        importerOutputPath == PathMapGet(pathMap, importer)
        resolvedOutputPath == PathMapGet(pathMap, resolved.path)
    IN IF IsExternal(specifier, externals) THEN specifier
       ELSE IF resolved.threw \/ resolved.external THEN specifier
       ELSE IF ~(StartsWithDot(specifier) \/ StartsWithSlash(specifier))
               /\ Head(resolved.path) = "node_modules"
       THEN <<"">> \o resolvedOutputPath
       ELSE calculateRelativePath(importerOutputPath, resolvedOutputPath)

\* rewriteImports (types.ts 989-1066): the new specifier of every static
\* import and re-export of the file
rewriteImports(content, importer, f, pathMap, externals) ==
    [specifier \in (IF content.kind = "code" THEN content.imports ELSE {}) |->
        RewriteSpecifier(specifier, importer, f, pathMap, externals)]

\* types.ts 947-974, the second pass over the entries of pathMap from entry k
RECURSIVE Emit(_, _, _, _)
Emit(k, f, externals, st) ==
    IF k > Len(st.pathMap) THEN st
    ELSE LET sourcePath == st.pathMap[k][1]
             outputPath == st.pathMap[k][2]
             content == Get(f, sourcePath)
             dynamic == IF content.kind = "code" THEN content.dynamic ELSE {}
             emitted == [kind |-> "module", source |-> sourcePath,
                         imports |-> (rewriteImports(content, sourcePath, f, st.pathMap,
                                                     externals)), dynamic |-> dynamic]
         IN IF content = None \/ ~isJavaScriptFile(sourcePath)
            THEN Emit(k + 1, f, externals, st)
            ELSE IF isTypeScriptFile(sourcePath) /\ (content.kind = "code" /\ content.bad)
            THEN Emit(k + 1, f, externals,
                      [st EXCEPT !.warnings = Append(@, [kind |-> "Failed to transform",
                                                         name |-> sourcePath, specifier |-> None])])
            ELSE Emit(k + 1, f, externals,
                      [st EXCEPT !.modules = Put(@, outputPath, emitted)])

\* transformAndResolve (types.ts 877-983)
transformAndResolve(f, entryPoint, externals) ==
    LET done == Emit(1, f, externals, Discover(f, externals, DiscoverStart(entryPoint)))
    IN [mainModule |-> OutputPath(entryPoint), modules |-> done.modules,
        warnings |-> done.warnings, pathMap |-> done.pathMap]
(***************************************************************************)
(* createWorker (index.ts 36-112)                                          *)
(***************************************************************************)
\* index.ts 47: cloudflare: is always in the list of externals
Externals == {<<"cloudflare:">>} \cup opts.externals

\* the warnings of the install, as they are appended to the build's warnings
InstallWarnings ==
    [k \in DOMAIN result.warnings |->
        [kind |-> result.warnings[k].kind, name |-> result.warnings[k].name,
         specifier |-> None]]

\* index.ts 61-70: the entry point is determined and looked up in the file
\* set f
EntryStep(f) ==
    LET entryPoint == Nullish(entryOption, detectEntryPoint(f, parseWranglerConfig(inputFiles)))
    IN IF entryPoint = None
       THEN [pc |-> "threw", error |-> "Could not determine entry point", entryPoint |-> None]
       ELSE IF entryPoint \notin DOMAIN f
       THEN [pc |-> "threw", error |-> "Entry point not found in files", entryPoint |-> entryPoint]
       ELSE [pc |-> "build", error |-> "none", entryPoint |-> entryPoint]

\* index.ts 61-111 up to the next suspension: the entry point is checked,
\* then the bundler is started, or the files are transformed one by one and
\* createWorker returns
BuildStep(f) ==
    LET entry == EntryStep(f)
        output == transformAndResolve(f, entry.entryPoint, Externals)
    IN IF entry.pc = "threw"
       THEN cw' = entry /\ UNCHANGED built
       ELSE IF opts.bundle
       THEN cw' = [entry EXCEPT !.pc = "bundling"] /\ UNCHANGED built
       ELSE /\ cw' = [entry EXCEPT !.pc = "returned"]
            /\ built' = [output EXCEPT !.warnings = @ \o InstallWarnings]

\* createWorker is called (index.ts 36-59): dependencies are installed first
\* when package.json declares some
CreateWorkerCall ==
    /\ api = "createWorker"
    /\ cw.pc = "idle"
    /\ IF hasDependencies(inputFiles)
       THEN /\ InstallStart(inputFiles, FALSE)
            /\ cw' = [cw EXCEPT !.pc = "installing"]
            /\ UNCHANGED built
       ELSE /\ BuildStep(inputFiles)
            /\ UNCHANGED <<ipc, result, installedPackages, inProgress, tasks,
                           metaFetches, tarFetches, requested, closed, failures, written>>
    /\ UNCHANGED <<input, calls, rv>>

\* `await installDependencies(files)` resumes (index.ts 56-111)
CreateWorkerResume ==
    /\ cw.pc = "installing"
    /\ ipc \in {"returned", "rejected"}
    /\ IF ipc = "rejected"
       THEN /\ cw' = [cw EXCEPT !.pc = "threw", !.error = "install rejected"]
            /\ UNCHANGED built
       ELSE BuildStep(result.files)
    /\ UNCHANGED <<input, calls, rv, ipc, result, installedPackages, inProgress, tasks,
                   metaFetches, tarFetches, requested, closed, failures, written>>

\* `await bundleWithEsbuild(...)` settles (index.ts 74-94): the bundle is
\* returned, or the bundler's initialization or build has thrown
BundleResponse ==
    /\ cw.pc = "bundling"
    /\ \E ok \in BOOLEAN :
          IF ok
          THEN /\ cw' = [cw EXCEPT !.pc = "returned"]
               /\ built' = [mainModule |-> <<"bundle.js">>,
                            modules |-> [p \in {<<"bundle.js">>} |-> [kind |-> "bundle",
                                                            source |-> cw.entryPoint]],
                            warnings |-> InstallWarnings,
                            pathMap |-> <<>>]
          ELSE /\ cw' = [cw EXCEPT !.pc = "threw", !.error = "Bundling failed"]
               /\ UNCHANGED built
    /\ UNCHANGED <<input, calls, rv, ipc, result, installedPackages, inProgress, tasks,
                   metaFetches, tarFetches, requested, closed, failures, written>>

\* resolveVersion(range, metadata) is called
ResolveCall ==
    /\ api = "resolveVersion"
    /\ ~rv.called
    /\ rv' = [rv EXCEPT !.called = TRUE, !.version = resolveVersion(rv.range, rv.metadata)]
    /\ UNCHANGED <<input, calls, cw, built, ipc, result, installedPackages, inProgress, tasks,
                   metaFetches, tarFetches, requested, closed, failures, written>>

\* resolveModule(specifier, {files, importer}) is called (types.ts 261-281)
ResolveModuleCall ==
    /\ api = "resolveModule"
    /\ ~rm.called
    /\ rm' = [rm EXCEPT !.called = TRUE,
                        !.result = resolveModule(rm.specifier, inputFiles, rm.importer)]
    /\ UNCHANGED <<input, disc, tar, esb, cw, built, rv, ipc, result, installedPackages, inProgress,
                   tasks, metaFetches, tarFetches, requested, closed, failures, written>>

(***************************************************************************)
(* initializeEsbuild (bundler.ts 571-621)                                  *)
(***************************************************************************)
\* the callers: concurrent builds that reach bundleWithEsbuild
Callers == 1..MaxCallers

\* `null` where a promise may stand: promises are numbered from 1
NoPromise == 0

\* the promises of esbuild.initialize that are not settled
PendingInvocations(e) == {p \in DOMAIN e.promises : e.promises[p] = "pending"}

\* an initialization never counts as in progress
NeverInProgress(e) == FALSE

\* bundler.ts 584: `if (esbuildInitializePromise)`
InProgress(e) == e.esbuildInitializePromise # NoPromise

\* bundler.ts 579-609: caller c calls initializeEsbuild, which runs up to its
\* first suspension: it returns at once, or returns the promise in progress,
\* or creates the promise, whose body invokes esbuild.initialize, and awaits it.
InitializeCall(c) ==
    /\ api = "initializeEsbuild"
    /\ esb.callers[c].pc \in {"out", "returned", "threw"}
    /\ esb.nCalls < MaxCalls
    /\ LET e == [esb EXCEPT !.nCalls = @ + 1] IN
       esb' = IF e.esbuildInitialized
              THEN [e EXCEPT !.callers[c] = [pc |-> "returned", awaits |-> NoPromise]]
              ELSE IF InProgress(e)
              THEN [e EXCEPT !.callers[c] = [pc |-> "waiting",
                                             awaits |-> e.esbuildInitializePromise]]
              ELSE LET p == Len(e.promises) + 1 IN
                   [e EXCEPT !.promises = Append(@, "pending"),
                             !.esbuildInitializePromise = p,
                             !.invocations = @ + 1,
                             !.callers[c] = [pc |-> "owner", awaits |-> p]]
    /\ UNCHANGED <<input, disc, rm, tar, cw, built, rv, ipc, result, installedPackages,
                   inProgress, tasks, metaFetches, tarFetches, requested, closed,
                   failures, written>>

\* bundler.ts 595-610: the promise of esbuild.initialize settles and the
\* body of the initialization promise runs to its end: the engine is
\* initialized, or it reports that it was initialized before, or it fails
\* with another error, which rejects the initialization promise.
InitializeSettles(p) ==
    /\ api = "initializeEsbuild"
    /\ p \in PendingInvocations(esb)
    /\ \E outcome \in {"ok", "more than once", "error"} :
          esb' = IF outcome = "error"
                 THEN [esb EXCEPT !.promises[p] = "rejected"]
                 ELSE [esb EXCEPT !.promises[p] = "fulfilled",
                                  !.esbuildInitialized = TRUE,
                                  !.succeeded = @ \/ outcome = "ok"]
    /\ UNCHANGED <<input, disc, rm, tar, cw, built, rv, ipc, result, installedPackages,
                   inProgress, tasks, metaFetches, tarFetches, requested, closed,
                   failures, written>>

\* bundler.ts 613-619: the caller that created the promise resumes after its
\* await: it returns, or it resets the promise and throws.
OwnerResumes(c) ==
    /\ api = "initializeEsbuild"
    /\ esb.callers[c].pc = "owner"
    /\ esb.promises[esb.callers[c].awaits] # "pending"
    /\ esb' = IF esb.promises[esb.callers[c].awaits] = "fulfilled"
              THEN [esb EXCEPT !.callers[c].pc = "returned"]
              ELSE [esb EXCEPT !.callers[c].pc = "threw",
                               !.esbuildInitializePromise = NoPromise]
    /\ UNCHANGED <<input, disc, rm, tar, cw, built, rv, ipc, result, installedPackages,
                   inProgress, tasks, metaFetches, tarFetches, requested, closed,
                   failures, written>>

\* bundler.ts 584-586: a caller that returned the promise in progress
\* settles as that promise does
WaiterResumes(c) ==
    /\ api = "initializeEsbuild"
    /\ esb.callers[c].pc = "waiting"
    /\ esb.promises[esb.callers[c].awaits] # "pending"
    /\ esb' = [esb EXCEPT !.callers[c].pc =
                    IF esb.promises[esb.callers[c].awaits] = "fulfilled"
                    THEN "returned" ELSE "threw"]
    /\ UNCHANGED <<input, disc, rm, tar, cw, built, rv, ipc, result, installedPackages,
                   inProgress, tasks, metaFetches, tarFetches, requested, closed,
                   failures, written>>

\* parseTar runs the test of its loop and one iteration (installer.ts 361-406)
ParseTarStep ==
    /\ api = "parseTar"
    /\ tar.pc = "loop"
    /\ tar.iterations < MaxIterations
    /\ tar' = ParseTarIteration(tar)
    /\ UNCHANGED <<input, disc, rm, esb, cw, built, rv, ipc, result, installedPackages,
                   inProgress, tasks, metaFetches, tarFetches, requested, closed,
                   failures, written>>

\* one iteration of the first pass of transformAndResolve (types.ts 891-944)
DiscoverStep ==
    /\ api = "transformAndResolve"
    /\ disc.toProcess # <<>>
    /\ disc' = DiscoverIteration(inputFiles, Externals, disc)
    /\ UNCHANGED <<input, rm, tar, esb, cw, built, rv, ipc, result, installedPackages,
                   inProgress, tasks,
                   metaFetches, tarFetches, requested, closed, failures, written>>

(***************************************************************************)
(* Inputs                                                                  *)
(***************************************************************************)
SrcIndex == <<"src", "index.ts">>
\* the package.json contents a caller of installDependencies may pass
ManifestContents(u) ==
    {[kind |-> "empty"], Text("not valid json"), [kind |-> "null"]}
    \cup {Manifest(deps, None, None, None, None) : deps \in {None} \cup DepMaps(u)}
    \cup {Manifest(deps, [n \in {"b"} |-> RangeWord("latest")], None, None, None) :
            deps \in {None, EmptyMap, [n \in {"a"} |-> RangeWord("latest")]}}

\* the file sets a caller of installDependencies may pass: a source file, a
\* module that is already under node_modules/a/, and possibly a package.json
InputFileSets(u) ==
    LET base == [p \in {SrcIndex, (NodeModulesPath("a", <<"index.js">>))} |->
                    IF p = SrcIndex THEN Text("source") ELSE Text("old")]
    IN {base} \cup {Put(base, PackageJsonPath, m) : m \in ManifestContents(u)}

\* CreateWorkerOptions: bundle, strictBundling, externals
Options(bundle, strictBundling, externals) ==
    [bundle |-> bundle, strictBundling |-> strictBundling, externals |-> externals]

TransformOnly == Options(FALSE, FALSE, {})

\* one call of createWorker
Worker(f, entryPoint, options) ==
    [files |-> f, entryPoint |-> entryPoint, options |-> options]

\* the file sets a caller of createWorker may pass: with or without a source
\* file at a default entry path, with or without declared dependencies
WorkerFileSets ==
    LET dep == [n \in {"a"} |-> RangeWord("latest")]
        manifests == {Manifest(d, None, None, None, m) :
                        d \in {None, dep},
                        m \in {None, <<".", "main.js">>}}
        sources == {EmptyMap, [p \in {SrcIndex} |-> (Code({<<"a">>, <<"b">>}, {}, FALSE))]}
    IN sources
       \cup {Put(s, PackageJsonPath, m) : s \in sources, m \in manifests}
       \cup {Put(s, WranglerToml, Wrangler(<<"worker.js">>)) : s \in sources}

\* calls with bundle: true, without and with declared dependencies
BundleWorkers ==
    LET source == [p \in {SrcIndex} |-> (Code({<<"a">>, <<"b">>}, {}, FALSE))]
        dep == [n \in {"a"} |-> RangeWord("latest")]
    IN {Worker(source, None, Options(TRUE, s, {})) : s \in BOOLEAN}
       \cup {Worker(Put(source, PackageJsonPath, Manifest(dep, None, None, None, None)),
                    None, Options(TRUE, FALSE, {}))}

\* a file set from <<path, content>> pairs; a pair with no content is no file
FileSet(entries) ==
    LET present == {e \in entries : e[2] # None}
    IN [p \in {e[1] : e \in present} |-> (CHOOSE e \in present : e[1] = p)[2]]

\* a module without imports
Plain == Code({}, {}, FALSE)

\* the files of an installed package with a manifest, a main file, and a
\* file lib.js the main file imports
PackageFiles(name) ==
    {<<NodeModulesPath(name, <<"package.json">>),
       Manifest(None, None, None, None, <<"index.js">>)>>,
     <<NodeModulesPath(name, <<"index.js">>), Code({<<".", "lib.js">>}, {}, FALSE)>>,
     <<NodeModulesPath(name, <<"lib.js">>), Plain>>}

\* The source trees a caller of createWorker may pass in transform-only
\* mode: the entry file src/index.ts imports up to MaxImports specifiers,
\* may import src/utils dynamically, and may have a syntax error; beside it
\* there may be src/utils.ts (plain, with
\* a syntax error, or importing the entry file back), src/utils.js,
\* src/data.json (valid or not), helper.js, and the packages a and
\* cloudflare:workers under node_modules.
SourceTrees ==
    LET \* the specifiers the entry file may import
        Specifiers ==
            {<<".", "utils">>, <<".", "utils.js">>, <<".", "data.json">>,
             <<"..", "helper">>, <<".", "missing">>, <<".", "index">>, <<"a">>,
             <<"cloudflare:workers">>}
    IN
    {FileSet({<<SrcIndex, Code(imports, dynamic, bad)>>,
              <<<<"src", "utils.ts">>, utilsTs>>,
              <<<<"src", "utils.js">>, utilsJs>>,
              <<<<"src", "data.json">>, dataJson>>,
              <<<<"helper.js">>, helper>>}
             \cup UNION {PackageFiles(n) : n \in packages}) :
        imports \in {S \in SUBSET Specifiers : Cardinality(S) <= MaxImports},
        dynamic \in {{}, {<<".", "utils">>}},
        bad \in BOOLEAN,
        utilsTs \in {None, Plain, Code({}, {}, TRUE), Code({<<".", "index">>}, {}, FALSE)},
        utilsJs \in {None, Plain},
        dataJson \in {None, [kind |-> "json"], Text("not valid json")},
        helper \in {None, Code({<<".", "src", "utils">>}, {}, FALSE)},
        packages \in SUBSET {"a", "cloudflare:workers"}}

\* source trees with files of one stem in several dialects: src/utils.ts,
\* src/utils.tsx, src/utils.js, each imported by the entry file or not
DialectTrees ==
    {FileSet({<<SrcIndex, Code(imports, {}, FALSE)>>,
              <<<<"src", "utils.ts">>, utilsTs>>,
              <<<<"src", "utils.tsx">>, utilsTsx>>,
              <<<<"src", "utils.js">>, utilsJs>>}) :
        imports \in SUBSET {<<".", "utils">>, <<".", "utils.tsx">>, <<".", "utils.js">>},
        utilsTs \in {None, Plain},
        utilsTsx \in {None, Plain},
        utilsJs \in {None, Plain}}

Conditions(import, default, module) ==
    [kind |-> "conditions", import |-> import, default |-> default, module |-> module]

\* the package.json contents that matter to the detection of the entry point
EntryManifests ==
    {Text("not valid json"), [kind |-> "null"]}
    \cup {Manifest(None, None, exp, mod, main) :
            exp \in LET \* an entry-point string and an `exports` object
                        utils == [kind |-> "path", path |-> <<".", "utils.js">>]
                        ExportsObject(dot) == [kind |-> "object", dot |-> dot]
                    IN {None,
                        utils,
                        ExportsObject(utils),
                        ExportsObject(Conditions(None, utils, None)),
                        ExportsObject(Conditions(None, None, None))},
            mod \in {None, <<"helper.js">>},
            main \in {None, <<".", "main.js">>}}

\* The file sets that exercise the detection of the entry point: module
\* files at default and other paths, with or without a wrangler.toml (with
\* or without `main`, or unparseable) and a package.json
EntryFileSets ==
    LET all == {SrcIndex, <<"index.js">>, <<"main.js">>, <<"worker.js">>,
                <<"helper.js">>, <<"utils.js">>}
    IN {FileSet({<<p, Plain>> : p \in present}
                \cup {<<WranglerToml, wrangler>>, <<PackageJsonPath, manifest>>}) :
          present \in {all, all \ {SrcIndex}, all \ {SrcIndex, <<"index.js">>}},
          wrangler \in {None, Wrangler(None), Wrangler(<<".", "worker.js">>),
                        Text("not valid toml")},
          manifest \in {None} \cup EntryManifests}

\* the calls of createWorker of a run of the build
BuildWorkers ==
    {Worker(f, None, TransformOnly) : f \in SourceTrees \cup DialectTrees}
    \cup {Worker(f, e, TransformOnly) : f \in EntryFileSets, e \in {None, <<"main.js">>}}
    \cup {Worker(f, None, Options(TRUE, s, {})) :
            f \in {[p \in {SrcIndex} |-> Plain]}, s \in BOOLEAN}

\* The file sets of the calls of resolveModule: beside src/index.ts there
\* may be a file src/utils without extension, src/utils.ts, src/utils.js,
\* the directory src/utils with index.ts and index.js, helper.js, and the
\* package a with a manifest that is valid JSON or not.
ResolveTrees ==
    {FileSet({<<SrcIndex, Plain>>,
              <<<<"src", "utils">>, exact>>,
              <<<<"src", "utils.ts">>, utilsTs>>,
              <<<<"src", "utils.js">>, utilsJs>>,
              <<<<"src", "utils", "index.ts">>, indexTs>>,
              <<<<"src", "utils", "index.js">>, indexJs>>,
              <<<<"helper.js">>, helper>>,
              <<NodeModulesPath("a", <<"package.json">>), manifest>>,
              <<NodeModulesPath("a", <<"index.js">>), main>>}) :
        exact \in {None, Text("text")},
        utilsTs \in {None, Plain},
        utilsJs \in {None, Plain},
        indexTs \in {None, Plain},
        indexJs \in {None, Plain},
        helper \in {None, Plain},
        manifest \in {None, Manifest(None, None, None, None, <<"index.js">>),
                       Text("not valid json")},
        main \in {None, Plain}}

\* the specifiers and importers of the calls of resolveModule
ModuleQueries ==
    {[specifier |-> sp, importer |-> im, called |-> FALSE, result |-> None] :
        sp \in {<<".", "utils">>, <<".", "utils.js">>, <<"..", "helper">>,
                 <<".", "..", "src", ".", "utils">>, <<".", "toString">>,
                 <<"", "src", "utils">>, <<"a">>, <<"a", "index.js">>},
        im \in {SrcIndex, <<"index.ts">>}}

\* a member of an archive: its header block
Member(name, size, typeFlag) ==
    [kind |-> "header", name |-> name, size |-> size, typeFlag |-> typeFlag]

\* The members of the archives: regular files (type flag "0") that are
\* empty, fill a part of one block, or fill more than one block; a member
\* whose size field holds a negative number; regular files with the old
\* type flag NUL; a directory.
Members ==
    LET names == {<<"package", "index.js">>, <<"package", "logo.png">>,
                  <<"package", "README.png">>, <<"package", "LICENSE">>, <<"lib.js">>}
    IN {Member(n, size, "0") : n \in names, size \in {0, 100, 600}}
       \cup {Member(<<"package", "index.js">>, -512, "0")}
       \cup {Member(n, 100, "NUL") : n \in names}
       \cup {Member(<<"package", "lib">>, 0, "5")}

\* the blocks of a sequence of members, the first of them at block `at`
RECURSIVE Blocks(_, _)
Blocks(members, at) ==
    IF members = <<>> THEN <<>>
    ELSE LET m == Head(members)
             count == IF m.size > 0 THEN CeilBlocks(m.size) ELSE 0
         IN <<m>>
            \o [k \in 1..count |-> [kind |-> "content", of |-> at]]
            \o Blocks(Tail(members), at + 1 + count)

\* the sequences of at most n members
RECURSIVE MemberSeqs(_)
MemberSeqs(n) ==
    IF n = 0 THEN {<<>>}
    ELSE MemberSeqs(n - 1)
         \cup {Append(ms, m) : ms \in {x \in MemberSeqs(n - 1) : Len(x) = n - 1}, m \in Members}

\* The archives: up to MaxMembers members, then nothing, or the end marker
\* (two blocks of zeros), or the end marker and one more member and block
\* of zeros after it.
Archives ==
    LET late == <<Member(<<"package", "lib.js">>, 100, "0")>>
    IN {[members |-> ms, marker |-> marker,
         data |-> Blocks(ms, 1)
                  \o (IF marker = "none" THEN <<>> ELSE <<[kind |-> "zero"], [kind |-> "zero"]>>)
                  \o (IF marker = "middle"
                      THEN Blocks(late, Len(Blocks(ms, 1)) + 3) \o <<[kind |-> "zero"]>>
                      ELSE <<>>)] :
          ms \in MemberSeqs(MaxMembers), marker \in {"none", "end", "middle"}}

QueryRanges ==
    {RangeWord("latest"), RangeWord("next"), RangeExact(<<1, 2, 3>>)}
    \cup {[kind |-> "caret", ver |-> v] : v \in {<<1, 0, 0>>, <<1, 2, 0>>, <<0, 1, 0>>}}
    \cup {[kind |-> "tilde", ver |-> v] : v \in {<<1, 2, 0>>, <<1, 2, 3>>}}
    \cup {[kind |-> "gte", ver |-> v] : v \in {<<1, 0, 0>>, <<1, 2, 4>>}}

Queries ==
    {[range |-> r, metadata |-> [versions |-> vs, distTags |-> dt],
      called |-> FALSE, version |-> None] :
        r \in QueryRanges,
        vs \in SUBSET {<<0, 1, 0>>, <<0, 2, 0>>, <<1, 0, 0>>, <<1, 1, 0>>, <<1, 2, 0>>, <<1, 2,
                                                            3>>, <<1, 2, 5>>, <<1, 3, 0>>, <<2,
                                                            0, 0>>},
        dt \in {EmptyMap} \cup {[t \in {"latest"} |-> v] : v \in {<<1, 2, 0>>, <<2, 0, 0>>}}}

\* no other function is called
NoCalls == disc = None /\ rm = None /\ tar = None /\ esb = None

Idle ==
    /\ cw = [pc |-> "idle", error |-> "none", entryPoint |-> None]
    /\ built = None
    /\ ipc = "idle"
    /\ result = [files |-> EmptyMap, installed |-> <<>>, warnings |-> <<>>]
    /\ installedPackages = EmptyMap
    /\ inProgress = EmptyMap
    /\ tasks = <<>>
    /\ metaFetches = [n \in Names |-> 0]
    /\ tarFetches = [n \in Names |-> 0]
    /\ requested = [n \in Names |-> {}]
    /\ closed = {}
    /\ failures = {}
    /\ written = EmptyMap

\* a call of createWorker out of the set workers
WorkerCall(workers) ==
    /\ api = "createWorker"
    /\ \E w \in workers :
          /\ inputFiles = w.files
          /\ entryOption = w.entryPoint
          /\ opts = w.options
    /\ dev = FALSE
    /\ rv = None

InitOver(u) ==
    /\ registry = u
    /\ \/ /\ api = "installDependencies"
          /\ inputFiles \in InputFileSets(u)
          /\ LET \* options.dev is drawn where it makes a difference
                 m == Get(inputFiles, PackageJsonPath)
                 DevMatters == m # None /\ m.kind = "object" /\ m.devDependencies # None
             IN dev \in {d \in BOOLEAN : d => DevMatters}
          /\ entryOption = None
          /\ opts = TransformOnly
          /\ rv = None
       \/ WorkerCall({Worker(f, e, TransformOnly) :
                         f \in WorkerFileSets,
                         e \in {None, SrcIndex, NodeModulesPath("a", <<"index.js">>)}}
                     \cup BundleWorkers)
    /\ Idle
    /\ NoCalls

Init == InitOver(WideRegistry)

InitNarrow == InitOver(NarrowRegistry)

InitOdd == InitOver(OddRegistry)

\* a build of a source tree without declared dependencies
InitBuild ==
    /\ registry = WideRegistry
    /\ WorkerCall(BuildWorkers)
    /\ Idle
    /\ NoCalls

\* a call of resolveVersion
InitResolve ==
    /\ registry = WideRegistry
    /\ api = "resolveVersion"
    /\ inputFiles = EmptyMap
    /\ dev = FALSE
    /\ entryOption = None
    /\ opts = TransformOnly
    /\ rv \in Queries
    /\ Idle
    /\ NoCalls

\* the first pass of transformAndResolve over a source tree, from the entry
\* file src/index.ts
InitDiscover ==
    /\ registry = WideRegistry
    /\ api = "transformAndResolve"
    /\ inputFiles \in SourceTrees
    /\ dev = FALSE
    /\ entryOption = SrcIndex
    /\ opts = TransformOnly
    /\ rv = None
    /\ disc = DiscoverStart(SrcIndex)
    /\ rm = None
    /\ tar = None
    /\ esb = None
    /\ Idle

\* a call of resolveModule
InitModule ==
    /\ registry = WideRegistry
    /\ api = "resolveModule"
    /\ inputFiles \in ResolveTrees
    /\ dev = FALSE
    /\ entryOption = None
    /\ opts = TransformOnly
    /\ rv = None
    /\ disc = None
    /\ rm \in ModuleQueries
    /\ tar = None
    /\ esb = None
    /\ Idle

\* a call of parseTar
InitTar ==
    /\ registry = WideRegistry
    /\ api = "parseTar"
    /\ inputFiles = EmptyMap
    /\ dev = FALSE
    /\ entryOption = None
    /\ opts = TransformOnly
    /\ rv = None
    /\ disc = None
    /\ rm = None
    /\ tar \in {[archive |-> a, data |-> a.data, offset |-> 0, files |-> EmptyMap,
                  pc |-> "loop", iterations |-> 0] : a \in Archives}
    /\ esb = None
    /\ Idle

\* The module with initializeEsbuild is loaded (bundler.ts 572-573): no
\* promise exists, no caller is inside initializeEsbuild.  Kept for the
\* record: the promises created so far with their states, the number of
\* calls and of invocations of esbuild.initialize, and whether one of the
\* invocations has succeeded.
InitEsbuild ==
    /\ registry = WideRegistry
    /\ api = "initializeEsbuild"
    /\ inputFiles = EmptyMap
    /\ dev = FALSE
    /\ entryOption = None
    /\ opts = TransformOnly
    /\ rv = None
    /\ disc = None
    /\ rm = None
    /\ tar = None
    /\ esb = [esbuildInitialized |-> FALSE,
              esbuildInitializePromise |-> NoPromise,
              promises |-> <<>>,
              callers |-> [c \in Callers |-> [pc |-> "out", awaits |-> NoPromise]],
              nCalls |-> 0,
              invocations |-> 0,
              succeeded |-> FALSE]
    /\ Idle

\* the steps of the callers of initializeEsbuild and of the engine
NextEsbuild ==
    \/ \E c \in Callers : InitializeCall(c)
    \/ \E p \in DOMAIN esb.promises : InitializeSettles(p)
    \/ \E c \in Callers : OwnerResumes(c)
    \/ \E c \in Callers : WaiterResumes(c)

\* the steps of installDependencies and of its install promises
InstallNext ==
    \/ CallInstall
    \/ \E i \in DOMAIN tasks : MetadataResponse(i)
    \/ \E i \in DOMAIN tasks : TarballResponse(i)
    \/ \E i \in DOMAIN tasks : DepsSettled(i)
    \/ \E i \in DOMAIN tasks : Cleanup(i)
    \/ InstallReturn

Next ==
    \/ InstallNext
    \/ CreateWorkerCall
    \/ CreateWorkerResume
    \/ BundleResponse

\* the steps of a build without an install
NextBuild ==
    \/ CreateWorkerCall
    \/ BundleResponse

\* every run of the installer over the three-package registry
Spec == Init /\ [][Next]_vars

\* every run in which a range may be the name of an inherited property
SpecOdd == InitOdd /\ [][Next]_vars

\* every run over the registry with several versions and ranges
SpecNarrow == InitNarrow /\ [][Next]_vars

\* The event loop runs every continuation that is ready, and every request
\* that was sent is answered or fails (fetchWithTimeout aborts it at the
\* latest after the timeout): a step of the install that stays possible is
\* taken.
LiveSpec == Init /\ [][Next]_vars /\ WF_vars(InstallNext)

\* every build of a source tree in which nothing is installed
SpecBuild == InitBuild /\ [][NextBuild]_vars

\* every call of resolveVersion
SpecResolve == InitResolve /\ [][ResolveCall]_vars

\* every interleaving of the calls of initializeEsbuild
SpecEsbuild == InitEsbuild /\ [][NextEsbuild]_vars

\* every call of parseTar, iteration by iteration
SpecTar == InitTar /\ [][ParseTarStep]_vars

\* every call of resolveModule
SpecModule == InitModule /\ [][ResolveModuleCall]_vars

\* every first pass of transformAndResolve, iteration by iteration
SpecDiscover == InitDiscover /\ [][DiscoverStep]_vars

(***************************************************************************)
(* Claims                                                                  *)
(***************************************************************************)
\* C1: a run of installDependencies that has started its install tasks
\* eventually returns, whatever the dependency graph (cycles included) and
\* whatever the outcome and the order of the registry's answers.
C1_InstallReturns == (ipc = "running") ~> (ipc = "returned")

\* an install that returned after it met a self-dependency and a dependency
\* cycle through three packages, a failed fetch, and a task that waited on
\* another task's in-flight handle
C1_Witness ==
    /\ ipc = "returned"
    /\ {1, 3} \subseteq closed
    /\ failures # {}
    /\ \E i \in DOMAIN tasks : tasks[i].adopts # {}

\* the names of the packages that had a failure
FailedNames == {f[1] : f \in failures}

C3_NeverInBoth ==
    \A n \in Names : ~(n \in DOMAIN installedPackages /\ n \in DOMAIN inProgress)

\* C3 as amended: a name is in both maps only while its own install promise
\* has recorded the version and its creator has not yet removed the handle;
\* the handle of a name always is its own install promise, still to be
\* removed, so a finished install leaves the name in the committed map only.
C3_InBothOnlyWhileInstalling ==
    \A n \in DOMAIN inProgress :
        LET t == tasks[inProgress[n]] IN
        /\ t.name = n
        /\ t.pc # "done"
        /\ n \in DOMAIN installedPackages => t.pc \in {"tarball", "deps", "settled"}

\* a name in both maps while its archive is being fetched
C3_Witness ==
    \E n \in DOMAIN inProgress :
        n \in DOMAIN installedPackages /\ tasks[inProgress[n]].pc = "tarball"

\* C4: at any moment at most one install promise per package name has not
\* finished: a request for a name that is being installed never starts a
\* second fetch of it.
C4_OneTaskPerName ==
    \A i, j \in DOMAIN tasks :
        (i # j /\ tasks[i].name = tasks[j].name)
            => (tasks[i].pc = "done" \/ tasks[j].pc = "done")

\* a request that found the name in flight and waits on that handle, the
\* metadata of the name having been requested once
C4_Witness ==
    \E i \in DOMAIN tasks : \E j \in tasks[i].adopts :
        tasks[j].pc = "metadata" /\ metaFetches[tasks[j].name] = 1

\* C5: registry metadata is requested at most once per package name.
C5_MetadataFetchedOnce == \A n \in Names : metaFetches[n] <= 1

\* C6: the failure of a package never rejects installDependencies, every
\* failure leaves a warning that names the package, and when the call has
\* returned every requested package that had no failure of its own is
\* installed with the members of its archive in the file set.
C6_FailuresStayLocal ==
    /\ tasks # <<>> => ipc # "rejected"
    /\ \A n \in FailedNames : \E k \in DOMAIN result.warnings : result.warnings[k].name = n
    /\ ipc = "returned" =>
          \A i \in DOMAIN tasks :
              LET n == tasks[i].name IN
              n \notin FailedNames =>
                  /\ n \in DOMAIN installedPackages
                  /\ Entry(n, installedPackages[n]) \in Range(result.installed)
                  /\ n \in DOMAIN written
                  /\ \A q \in written[n] : NodeModulesPath(n, q) \in DOMAIN result.files

\* a returned install with two top-level packages: the archive of one failed,
\* the other is installed with its files
C6_Witness ==
    /\ ipc = "returned"
    /\ \E i, j \in Children(0) :
          /\ <<tasks[i].name, "archive-decode">> \in failures
          /\ tasks[j].name \notin FailedNames
          /\ NodeModulesPath(tasks[j].name, <<"index.js">>) \in DOMAIN result.files

\* C7: every entry of the returned `installed` list names a package whose
\* archive was fetched and extracted and whose members were written.
C7_InstalledHasFiles ==
    ipc = "returned" =>
        \A k \in DOMAIN result.installed : result.installed[k][1] \in DOMAIN written

\* C8: every key of the input file set has the content of the input in the
\* returned file set.
C8_InputPreserved ==
    ipc = "returned" =>
        \A k \in DOMAIN inputFiles :
            k \in DOMAIN result.files /\ result.files[k] = inputFiles[k]

\* a package.json that is absent, is no JSON, or declares nothing to install
NothingToInstall(f, d) ==
    LET m == Get(f, PackageJsonPath)
    IN \/ ~Truthy(m)
       \/ m.kind \in {"text", "null"}
       \/ m.kind = "object" /\ DOMAIN DepsToInstall(m, d) = {}

\* C9: with nothing to install, installDependencies returns the input file
\* set with an empty `installed` list and sends no request.
C9_NothingToInstallIsNoOp ==
    (api = "installDependencies" /\ ipc # "idle" /\ NothingToInstall(inputFiles, dev))
        => /\ ipc = "returned"
           /\ result.files = inputFiles
           /\ result.installed = <<>>
           /\ \A n \in Names : metaFetches[n] = 0 /\ tarFetches[n] = 0

\* C10: when createWorker fails with an entry-point error, no request was
\* sent before.
C10_EntryErrorBeforeNetwork ==
    (cw.pc = "threw" /\ cw.error \in {"Could not determine entry point",
                                      "Entry point not found in files"})
        => \A n \in Names : metaFetches[n] = 0 /\ tarFetches[n] = 0

\* the file set the build of createWorker works on (index.ts 55-58)
BuildFiles == IF hasDependencies(inputFiles) THEN result.files ELSE inputFiles

\* createWorker has returned the per-file output
ReturnedModules == cw.pc = "returned" /\ ~opts.bundle

\* C11: when installDependencies returns, every install promise of the run
\* has finished and the in-flight map is empty; after the return nothing is
\* written to the returned file set and no install promise is created; and
\* createWorker looks at the file set only when every install promise has
\* finished.
C11_CompleteAtReturn ==
    [][ /\ ipc' = "returned" =>
              /\ \A i \in DOMAIN tasks' : tasks'[i].pc = "done"
              /\ inProgress' = EmptyMap
        /\ ipc = "returned" => (result' = result /\ tasks' = tasks)
        /\ (cw.pc \in {"idle", "installing"} /\ cw'.pc \notin {"idle", "installing"}) =>
              \A i \in DOMAIN tasks : tasks[i].pc = "done"
      ]_vars

\* createWorker has built the modules after an install in which a package
\* asked for further packages and files were written
C11_Witness ==
    /\ ReturnedModules
    /\ ipc = "returned"
    /\ \E i \in DOMAIN tasks : tasks[i].parent # 0
    /\ written # EmptyMap
    /\ tasks # <<>> /\ \A i \in DOMAIN tasks : tasks[i].pc = "done"

\* C12: when createWorker returns in transform-only mode, the returned
\* mainModule is a key of the returned modules.
C12_MainModuleEmitted ==
    ReturnedModules => built.mainModule \in DOMAIN built.modules

\* the specifiers of a source file that are followed: not in the externals
\* and resolved to a file of the file set
Followed(f, externals, path) ==
    LET content == f[path]
        all == IF content.kind = "code" /\ isJavaScriptFile(path)
               THEN content.imports \cup content.dynamic ELSE {}
    IN {s \in all : /\ ~IsExternal(s, externals)
                    /\ ~resolveModule(s, f, path).threw
                    /\ ~resolveModule(s, f, path).external}

\* the files reachable from the files of `frontier` through followed imports
RECURSIVE Reach(_, _, _, _)
Reach(f, externals, seen, frontier) ==
    IF frontier = {} THEN seen
    ELSE LET targets == UNION {{resolveModule(s, f, p).path : s \in Followed(f, externals, p)} :
                                  p \in frontier}
         IN Reach(f, externals, seen \cup frontier, targets \ (seen \cup frontier))

\* the source files reachable from the entry point of the build
Reachable == Reach(BuildFiles, Externals, {}, {cw.entryPoint})

\* C13: for every emitted code module M and every static import of M whose
\* specifier resolves to a file T of the file set, the rewritten specifier,
\* resolved against the output path of M, is the output path recorded for T,
\* and that path is a key of the output map.
C13_RewriteRoundTrip ==
    ReturnedModules =>
        \A k \in DOMAIN built.modules :
            LET M == built.modules[k] IN
            M.kind = "module" =>
                \A s \in DOMAIN M.imports :
                    LET T == resolveModule(s, BuildFiles, M.source)
                        back == joinPaths(getDirectory(k), M.imports[s])
                    IN (~T.threw /\ ~T.external) =>
                          /\ back = PathMapGet(built.pathMap, T.path)
                          /\ back \in DOMAIN built.modules

\* the relative specifiers of a source file that do not resolve
Unresolved(f, path) ==
    LET content == f[path]
        all == IF content.kind = "code" /\ isJavaScriptFile(path)
               THEN content.imports \cup content.dynamic ELSE {}
    IN {s \in all : (StartsWithDot(s) \/ StartsWithSlash(s))
                    /\ resolveModule(s, f, path).threw}

\* C14: when a relative import of a reachable file does not resolve, a
\* warning names the specifier and the importing file, the importing file
\* is emitted, and every file reachable from the entry point is discovered
\* and emitted.
C14_UnresolvedImportIsNotFatal ==
    ReturnedModules =>
        \A p \in Reachable : \A s \in Unresolved(BuildFiles, p) :
            /\ [kind |-> "Failed to resolve", name |-> p, specifier |-> s] \in Range(built.warnings)
            /\ OutputPath(p) \in DOMAIN built.modules
            /\ \A q \in Reachable :
                  /\ q \in MappedSources(built.pathMap)
                  /\ OutputPath(q) \in DOMAIN built.modules

\* C15: an import whose specifier starts with `cloudflare:` is never
\* followed during discovery and is left unchanged in the emitted module.
C15_CloudflareIsExternal ==
    ReturnedModules =>
        /\ \A k \in DOMAIN built.modules :
              LET M == built.modules[k] IN
              M.kind = "module" =>
                  \A s \in DOMAIN M.imports \cap {<<"cloudflare:workers">>} : M.imports[s] = s
        /\ \A p \in MappedSources(built.pathMap) :
              ~(Len(p) > 2 /\ <<p[2]>> \in {<<"cloudflare:workers">>} /\ p[1] = "node_modules")

\* the highest version of a set, None for the empty set
Highest(versions) ==
    IF versions = {} THEN None
    ELSE CHOOSE v \in versions : \A w \in versions : VersionLeq(w, v)

\* C16 as stated: for ^M.m.p resolveVersion returns the highest available
\* version whose major is M, for ~M.m.p the highest available version whose
\* major and minor are M.m.
C16_HighestOfMajor ==
    (rv # None /\ rv.called) =>
        LET r == rv.range
            available == rv.metadata.versions
        IN /\ r.kind = "caret" =>
                 rv.version = Highest({v \in available : v[1] = r.ver[1]})
           /\ r.kind = "tilde" =>
                 rv.version = Highest({v \in available :
                                          v[1] = r.ver[1] /\ v[2] = r.ver[2]})

\* C16 as amended: the version returned is the highest available version
\* that is not lower than the version the range names and has its major
\* (caret, major at least 1), its major and minor (tilde, and caret with
\* major 0); no version is returned when there is none.
C16_HighestNotLower ==
    (rv # None /\ rv.called) =>
        LET r == rv.range
            notLower == {v \in rv.metadata.versions : ~VersionLess(v, r.ver)}
        IN /\ (r.kind = "caret" /\ r.ver[1] >= 1) =>
                 rv.version = Highest({v \in notLower : v[1] = r.ver[1]})
           /\ (r.kind = "tilde" \/ (r.kind = "caret" /\ r.ver[1] = 0 /\ r.ver[2] >= 1)) =>
                 rv.version = Highest({v \in notLower :
                                          v[1] = r.ver[1] /\ v[2] = r.ver[2]})

\* ^1.0.0 over {1.0.0, 1.1.0, 1.2.3, 2.0.0} has given 1.2.3
C16_Witness ==
    /\ rv # None /\ rv.called
    /\ rv.range = [kind |-> "caret", ver |-> (<<1, 0, 0>>)]
    /\ rv.metadata.versions = {<<1, 0, 0>>, <<1, 1, 0>>, <<1, 2, 3>>, <<2, 0, 0>>}
    /\ rv.version = <<1, 2, 3>>

\* the first element of a sequence that is not None, None when there is none
FirstDefined(candidates) ==
    LET defined == {k \in DOMAIN candidates : candidates[k] # None}
    IN IF defined = {} THEN None
       ELSE candidates[CHOOSE k \in defined : \A j \in defined : k <= j]

\* a path without a leading "./"
Stripped(path) ==
    IF path # None /\ Len(path) > 1 /\ Head(path) = "." THEN Tail(path) ELSE path

\* the entry file the `exports` field of a manifest names, None for none
ExportsEntry(exp) ==
    IF exp = None THEN None
    ELSE IF exp.kind = "path" THEN exp.path
    ELSE IF exp.dot = None THEN None
    ELSE IF exp.dot.kind = "path" THEN exp.dot.path
    ELSE LET named == FirstDefined(<<exp.dot.import, exp.dot.default, exp.dot.module>>)
         IN IF named # None /\ named.kind = "path" THEN named.path ELSE None

C18_KeysAreDiscoveredFiles ==
    ReturnedModules =>
        /\ DOMAIN built.modules = {OutputPath(p) : p \in Reachable}
        /\ \A p, q \in Reachable : OutputPath(p) = OutputPath(q) => p = q

\* C19: with bundle: true, createWorker fails on a failure of the bundler
\* only when strictBundling is set.
C19_BundlerFailureFallsBack ==
    (cw.pc = "threw" /\ cw.error = "Bundling failed") => opts.strictBundling

\* C20: when the install of a package P has failed and the input had no
\* file under node_modules/P/, the returned file set has none, no package
\* was requested on behalf of P, and the specifiers P and P/sub resolve as
\* external.
C20_FailedPackageIsAbsent ==
    ipc = "returned" =>
        \A P \in FailedNames :
            {k \in DOMAIN inputFiles : Len(k) > 2 /\ k[1] = "node_modules" /\ k[2] = P} = {} =>
                /\ {k \in DOMAIN result.files
                    : Len(k) > 2 /\ k[1] = "node_modules" /\ k[2] = P} = {}
                /\ \A i \in DOMAIN tasks :
                      tasks[i].parent # 0 => tasks[tasks[i].parent].name # P
                /\ resolvePackage(<<P>>, result.files) = External(<<P>>)
                /\ resolvePackage(<<P, "index.js">>, result.files) = External(<<P, "index.js">>)

\* C21: every iteration of the first pass of transformAndResolve either
\* reads a path that was not read before or shortens the work list without
\* reading, so the pass ends after finitely many iterations for every file
\* set, also when files import each other in a cycle or import themselves;
\* and the content of a path is read at most once, however many files
\* import it.
C21_DiscoveryTerminates ==
    [][ api = "transformAndResolve" =>
          LET \* the paths the first pass has not read yet
              Unread(st) == (DOMAIN inputFiles \cup {entryOption}) \ st.processed
          IN /\ \/ Cardinality(Unread(disc')) < Cardinality(Unread(disc))
                \/ /\ Cardinality(Unread(disc')) = Cardinality(Unread(disc))
                   /\ Len(disc'.toProcess) < Len(disc.toProcess)
             /\ \A i, j \in DOMAIN disc'.reads : disc'.reads[i] = disc'.reads[j] => i = j
      ]_vars

\* the first pass has ended over an entry file that imports itself and
\* src/utils.ts, which imports the entry file back
C21_Witness ==
    /\ (api = "transformAndResolve" /\ disc.toProcess = <<>>)
    /\ inputFiles[SrcIndex].imports = {<<".", "index">>, <<".", "utils">>}
    /\ <<"src", "utils.ts">> \in DOMAIN inputFiles
    /\ inputFiles[<<"src", "utils.ts">>].imports = {<<".", "index">>}
    /\ disc.reads = <<SrcIndex, <<"src", "utils.ts">>>>

\* C22: in every emitted module, every import (static import, re-export,
\* dynamic import) that the first pass followed to a file of the file set
\* carries a specifier that, resolved against the module's own output path,
\* is the output path of that file, a key of the output map.
C22_RewriteCoversDiscovery ==
    ReturnedModules =>
        \A k \in DOMAIN built.modules :
            LET M == built.modules[k] IN
            M.kind = "module" =>
                \A s \in Followed(BuildFiles, Externals, M.source) :
                    LET T == resolveModule(s, BuildFiles, M.source)
                        emitted == (IF s \in DOMAIN M.imports THEN {M.imports[s]} ELSE {})
                                   \cup (IF s \in M.dynamic THEN {s} ELSE {})
                    IN \A e \in emitted :
                          /\ joinPaths(getDirectory(k), e) = PathMapGet(built.pathMap, T.path)
                          /\ joinPaths(getDirectory(k), e) \in DOMAIN built.modules

\* C23: a rewritten import whose target is a file under node_modules
\* carries "/" followed by the output path of the target, whoever imports
\* it; any other rewritten import carries the path of the target relative
\* to the output path of the importer.
C23_NodeModulesTargetIsAbsolute ==
    ReturnedModules =>
        \A k \in DOMAIN built.modules :
            LET M == built.modules[k] IN
            M.kind = "module" =>
                \A s \in DOMAIN M.imports \cap Followed(BuildFiles, Externals, M.source) :
                    LET T == resolveModule(s, BuildFiles, M.source)
                        target == PathMapGet(built.pathMap, T.path)
                    IN IF Head(T.path) = "node_modules"
                       THEN M.imports[s] = <<"">> \o target
                       ELSE M.imports[s] = calculateRelativePath(k, target)

\* C23 as amended: a rewritten import with a bare specifier carries "/"
\* followed by the output path of its target, which is under node_modules;
\* a rewritten import with a relative specifier carries the path of the
\* target relative to the output path of the importer, also when importer
\* and target are under node_modules.
C23_BareIsAbsoluteRelativeStaysRelative ==
    ReturnedModules =>
        \A k \in DOMAIN built.modules :
            LET M == built.modules[k] IN
            M.kind = "module" =>
                \A s \in DOMAIN M.imports \cap Followed(BuildFiles, Externals, M.source) :
                    LET T == resolveModule(s, BuildFiles, M.source)
                        target == PathMapGet(built.pathMap, T.path)
                    IN IF StartsWithDot(s) \/ StartsWithSlash(s)
                       THEN M.imports[s] = calculateRelativePath(k, target)
                       ELSE /\ Head(T.path) = "node_modules"
                            /\ M.imports[s] = <<"">> \o target

\* the entry file imports the package a by its name, and the main file of a
\* imports ./lib.js
C23_Witness ==
    /\ ReturnedModules
    /\ <<"src", "index.js">> \in DOMAIN built.modules
    /\ <<"a">> \in DOMAIN built.modules[<<"src", "index.js">>].imports
    /\ built.modules[<<"src", "index.js">>].imports[<<"a">>]
          = <<"", "node_modules", "a", "index.js">>
    /\ NodeModulesPath("a", <<"index.js">>) \in DOMAIN built.modules
    /\ built.modules[NodeModulesPath("a", <<"index.js">>)].imports
          = (<<".", "lib.js">> :> <<".", "lib.js">>)

\* C24: when the discovered sources do not hold a dialect file and a plain
\* file of the same stem, no two distinct discovered sources have the same
\* output path.
C24_OutputPathInjective ==
    ReturnedModules =>
        LET discovered == MappedSources(built.pathMap)
            \* the path without the extension of its last segment
            StemOf(path) ==
                LET last == path[Len(path)]
                    stems == {t \in Stems : \E e \in Range(Extensions) : last = t \o e}
                IN IF stems = {} THEN path
                   ELSE [path EXCEPT ![Len(path)] = CHOOSE t \in stems : TRUE]
            \* a dialect file and a plain file of the set share their stem
            MixesDialectAndPlain ==
                \E p, q \in discovered :
                    isTypeScriptFile(p) /\ ~isTypeScriptFile(q) /\ StemOf(p) = StemOf(q)
        IN ~MixesDialectAndPlain =>
              \A p, q \in discovered : OutputPath(p) = OutputPath(q) => p = q

\* C25: when node_modules/<name>/package.json is in the file set and is
\* not valid JSON, resolveModule of a specifier of the package returns the
\* specifier as external and does not throw.
C25_InvalidManifestIsExternal ==
    (api = "resolveModule" /\ rm.called) =>
        LET manifest == Get(inputFiles,
                            NodeModulesPath(Head(rm.specifier), <<"package.json">>))
        IN (~StartsWithDot(rm.specifier) /\ ~StartsWithSlash(rm.specifier)
            /\ manifest # None /\ manifest.kind = "text") =>
              rm.result = External(rm.specifier)

\* C26: for a relative specifier resolveModule returns the first of: the
\* joined path, the joined path with each extension, the joined path with
\* /index and each extension, that is a key of the file set; it throws
\* exactly when none is, and a path it returns is a key of the file set.
C26_RelativeResolutionOrder ==
    ((api = "resolveModule" /\ rm.called) /\ StartsWithDot(rm.specifier)) =>
        LET path == joinPaths(getDirectory(rm.importer), rm.specifier)
            candidates == <<path>>
                \o [k \in DOMAIN Extensions |-> AddExt(path, Extensions[k])]
                \o [k \in DOMAIN Extensions |-> IndexPath(path, Extensions[k])]
            present == {k \in DOMAIN candidates : candidates[k] \in DOMAIN inputFiles}
        IN /\ rm.result.threw <=> present = {}
           /\ ~rm.result.threw =>
                 /\ rm.result = Internal(candidates[CHOOSE k \in present :
                                                       \A j \in present : k <= j])
                 /\ rm.result.path \in DOMAIN inputFiles

\* C27 as stated: for a range >=M.m.p resolveVersion returns the version
\* the dist-tag latest names.
C27_GteGivesLatest ==
    (rv # None /\ rv.called /\ rv.range.kind = "gte") =>
        rv.version = DistTag(rv.metadata, "latest")

\* C27 as amended: for a range >=M.m.p resolveVersion returns the highest
\* available version that is not lower than M.m.p, whatever the dist-tag
\* latest names, and no version when there is none.
C27_GteGivesHighestNotLower ==
    (rv # None /\ rv.called /\ rv.range.kind = "gte") =>
        rv.version = Highest({v \in rv.metadata.versions : ~VersionLess(v, rv.range.ver)})

\* >=1.0.0 over {1.0.0, 1.2.0, 2.0.0} with latest = 1.2.0 has given 2.0.0
C27_Witness ==
    /\ rv # None /\ rv.called
    /\ rv.range = [kind |-> "gte", ver |-> (<<1, 0, 0>>)]
    /\ rv.metadata.versions = {<<1, 0, 0>>, <<1, 2, 0>>, <<2, 0, 0>>}
    /\ DistTag(rv.metadata, "latest") = <<1, 2, 0>>
    /\ rv.version = <<2, 0, 0>>

\* The stripped names of the regular-file members before the end marker
\* whose stripped name is text-like.  A name is stripped of one leading
\* package/ segment; it is text-like when it ends in a text extension, or is
\* the name of a configuration file, alone or followed by a text extension.
TextMembers(archive) ==
    LET WithoutPackage(name) ==
            IF Len(name) > 1 /\ Head(name) = "package" THEN Tail(name) ELSE name
        TextLike(name) ==
            LET fileName == name[Len(name)]
            IN \/ \E stem \in TarStems, ext \in TextExtensions : fileName = stem \o ext
               \/ \E f \in ConfigFiles, ext \in {""} \cup TextExtensions :
                     fileName = f \o ext
    IN {WithoutPackage(archive.members[i].name) :
           i \in {j \in DOMAIN archive.members :
                     /\ archive.members[j].typeFlag \in {"0", "NUL"}
                     /\ TextLike(WithoutPackage(archive.members[j].name))}}

\* C28 as stated: every iteration of the loop of parseTar advances the
\* offset by at least one block, and the result holds exactly the stripped
\* names of the text-like regular-file members before the end marker.
C28_AdvancesAndEmitsTextMembers ==
    [][api = "parseTar" =>
          /\ tar'.pc = "loop" => tar'.offset >= tar.offset + 1
          /\ tar'.pc = "returned" => DOMAIN tar'.files = TextMembers(tar.archive)]_vars

\* C29: every entry of the `installed` list has a version that is a key of
\* the versions map of its package.  (Every document of the registry lists
\* versions of registry.vers only, so a version outside registry.vers is a
\* key of no versions map.)
C29_InstalledVersionIsListed ==
    \A k \in DOMAIN result.installed : result.installed[k][2] \in registry.vers

\* C30: esbuild.initialize is invoked only when no earlier invocation is
\* pending and none has succeeded; a call that finds an initialization
\* in progress waits on its promise; when the caller that started a failed
\* initialization has thrown, the promise is cleared, and a call that
\* finds neither the flag nor a promise starts a fresh initialization.
C30_InitializeIsExclusive ==
    [][api = "initializeEsbuild" =>
          /\ esb'.invocations > esb.invocations =>
                /\ PendingInvocations(esb) = {}
                /\ ~esb.succeeded
          /\ \A c \in Callers :
                /\ (esb.callers[c].pc # "waiting" /\ esb'.callers[c].pc = "waiting") =>
                      /\ esb'.callers[c].awaits = esb.esbuildInitializePromise
                      /\ esb'.invocations = esb.invocations
                /\ (esb.callers[c].pc = "owner" /\ esb'.callers[c].pc = "threw") =>
                      esb'.esbuildInitializePromise = NoPromise
                /\ (esb'.nCalls > esb.nCalls /\ esb'.callers[c] # esb.callers[c]
                        /\ ~esb.esbuildInitialized /\ esb.esbuildInitializePromise = NoPromise) =>
                      /\ esb'.invocations = esb.invocations + 1
                      /\ esb'.callers[c].pc = "owner"]_vars

\* a first initialization has failed and its caller has thrown, a second
\* one is pending with its owner and a concurrent caller waiting on it
C30_Witness ==
    /\ esb # None
    /\ Len(esb.promises) = 2
    /\ esb.promises[1] = "rejected" /\ esb.promises[2] = "pending"
    /\ \E c, w \in Callers :
          /\ c # w
          /\ esb.callers[c] = [pc |-> "owner", awaits |-> 2]
          /\ esb.callers[w] = [pc |-> "waiting", awaits |-> 2]

====
